---- MODULE Spec2Model ----
(***************************************************************************)
(* QFolders (src/app.py): a Flask application over a hosted auth provider, *)
(* a row store and a blob store.  The model covers the three parts of the  *)
(* application that carry state-machine logic:                             *)
(*   - the contribution ledger  (track_contribution),                      *)
(*   - the session / token lifecycle (login, refresh_jwt_if_needed,        *)
(*     login_required, logout),                                            *)
(*   - the attachment handling of the question handlers.                   *)
(* Every remote call (auth provider, row store, blob store) is one step of *)
(* the request that makes it, so concurrent requests interleave between    *)
(* their round trips.                                                      *)
(***************************************************************************)
EXTENDS Integers, Sequences, FiniteSets, TLC

\* ------------------------------------------------------------------ bounds
NumClients == 2   \* concurrent requests (one per client)
NumBrowsers == 1  \* clients that log in and browse the protected read-only views
NumUsers == 1     \* user ids
MaxDay == 2       \* calendar days the clock runs through
MaxCalls == 3     \* track_contribution calls begun in one behaviour
MaxFaults == 1    \* injected collaborator failures (network errors) in one behaviour
MaxTokens == 3    \* token pairs the auth provider issues in one behaviour
NumFolders == 1   \* folder ids
MaxQuestions == 2 \* question ids
MaxKeys == 3      \* storage keys (uuid4 draws) in one behaviour
MaxRequests == 2  \* question and folder requests begun in one behaviour
MaxVisits == 3    \* logins, logouts and protected page requests in one behaviour

\* src/app.py line 30: MAX_FILE_SIZE = 10 * 1024 * 1024
MAX_FILE_SIZE == 10485760

Clients == 1..NumClients
Browsers == {c \in Clients : c <= NumBrowsers}
Users == 1..NumUsers
Days == 1..MaxDay
LedgerKeys == Users \X Days
Tokens == 1..MaxTokens
FolderIds == 1..NumFolders
QIds == 1..MaxQuestions
StorageKeys == QIds \X (1..MaxKeys)   \* f"{question_id}_{uuid4}.{ext}"

\* An optional value: <<>> is "absent" (Python None / missing key), <<v>> is v.
Absent == <<>>
Some(v) == <<v>>

VARIABLES
    pc,            \* pc[c]: the position of client c's request
    today,         \* date.today()
    contributions, \* table "contributions": per (user_id, contribution_date) the
                   \* contribution_count of each stored row
    tc,            \* tc[c]: the locals of c's track_contribution call
    tcBegun,       \* history: calls begun per (user, day)
    tcDone,        \* history: calls returned per (user, day)
    tcOverlap,     \* history: two calls for the (user, day) were in flight at once
    tcHist,        \* history: what c's latest call did
    faults,        \* history: injected collaborator failures so far
    session,       \* session[c]: the Flask session of client c
    nextTok,       \* auth provider: the next token pair it issues
    validAccess,   \* auth provider / row store: access tokens not yet expired
    validRefresh,  \* auth provider: refresh tokens it accepts
    chk,           \* history: chk[c], the latest run of refresh_jwt_if_needed
    req,           \* req[c]: the inputs and locals of c's request
    log,           \* history: log[c], the row-store and blob-store calls of c's request
    resp,          \* history: resp[c], how c's latest request ended
    folders,       \* table "folders": the ids stored
    questions,     \* table "questions": per id, the row (or none)
    blobs,         \* bucket "question-pdfs": the keys stored
    nextKey,       \* the next uuid4 draw
    nextQ,         \* the next question id the row store generates
    toColumn,      \* whether table "questions" has the terminal_output column
    begun          \* history: requests (or direct tracking calls) begun so far

ledgerVars == <<today, contributions, tc, tcBegun, tcDone, tcOverlap, tcHist>>
authVars == <<session, nextTok, validAccess, validRefresh, chk>>
dataVars == <<folders, questions, blobs, nextKey, nextQ, toColumn>>
reqVars == <<req, log, resp, begun>>
vars == <<pc, faults, ledgerVars, authVars, dataVars, reqVars>>

\* ------------------------------------------------------- contribution ledger
TcPositions == {"tc_select", "tc_update", "tc_insert_try", "tc_insert_except"}

NoCall == [user_id |-> 1, today |-> 1, count |-> 0, ret |-> "idle"]
NoHist == [rejected |-> FALSE, updated |-> FALSE, inserted |-> FALSE,
           raised |-> FALSE, returned |-> FALSE]

TcKey(c) == <<tc[c].user_id, tc[c].today>>

\* Calls in flight for a (user, day).
TcActive(k) == {c \in Clients : pc[c] \in TcPositions /\ TcKey(c) = k}

\* The table's uniqueness constraint on (user_id, contribution_date): an insert
\* is rejected when a row for the key is stored.
UniqueViolation(k) == Len(contributions[k]) > 0

\* A collaborator call fails (network error, timeout), or does not.
StoreFault == faults < MaxFaults /\ faults' = faults + 1
NoStoreFault == faults' = faults

\* Where an exception raised at a position of track_contribution leads: anything
\* raised inside the try block (lines 53-75) enters the except clause, whose
\* insert (lines 79-84) is itself guarded, its failure printed and dropped.
TcOnFailure_raise(position) ==
    IF position = "tc_insert_except" THEN "tc_raise" ELSE "tc_insert_except"
TcOnFailure(position) ==
    IF position = "tc_insert_except" THEN "tc_return" ELSE "tc_insert_except"

\* The position after a step: a return hands control back to the caller.
TcGoto(c, nxt) ==
    /\ pc' = [pc EXCEPT ![c] = IF nxt = "tc_return" THEN tc[c].ret ELSE nxt]
    /\ tcDone' = IF nxt \in {"tc_return", "tc_raise"}
                 THEN [tcDone EXCEPT ![TcKey(c)] = @ + 1] ELSE tcDone

TcNote(c, nxt, h) ==
    tcHist' = [tcHist EXCEPT ![c] = [h EXCEPT !.raised = (nxt = "tc_raise"),
                                              !.returned = (nxt = "tc_return")]]

\* The value written by the update: the count read by the select, plus one.
TcNewCount_plus2(count) == count + 2
TcNewCount(count) == count + 1

\* track_contribution is entered (lines 51-55) for user u by client c, to hand
\* control back at position ret: today is read once.
TcEnter(c, u, ret) ==
    LET k == <<u, today>> IN
    /\ tc' = [tc EXCEPT ![c] = [user_id |-> u, today |-> today, count |-> 0,
                                ret |-> ret]]
    /\ tcBegun' = [tcBegun EXCEPT ![k] = @ + 1]
    /\ tcOverlap' = [tcOverlap EXCEPT ![k] = @ \/ TcActive(k) # {}]
    /\ tcHist' = [tcHist EXCEPT ![c] = NoHist]

\* A caller (lines 373, 790, 835, 873, 902, 936) tracks a contribution.
TcCall(c) ==
    /\ pc[c] = "idle"
    /\ begun < MaxCalls
    /\ begun' = begun + 1
    /\ \E u \in Users : TcEnter(c, u, "idle")
    /\ pc' = [pc EXCEPT ![c] = "tc_select"]
    /\ UNCHANGED <<today, contributions, tcDone, faults>>
    /\ UNCHANGED <<authVars, dataVars, req, log, resp>>

\* lines 59-65: select contribution_count ... .single().execute(); single()
\* raises unless exactly one row matches.
TcSelect(c) ==
    /\ pc[c] = "tc_select"
    /\ LET rows == contributions[TcKey(c)] IN
       \/ /\ NoStoreFault
          /\ IF Len(rows) = 1
             THEN /\ tc' = [tc EXCEPT ![c].count = rows[1]]
                  /\ TcGoto(c, "tc_update")
             ELSE /\ tc' = tc
                  /\ TcGoto(c, TcOnFailure("tc_select"))
       \/ /\ StoreFault
          /\ tc' = tc
          /\ TcGoto(c, TcOnFailure("tc_select"))
    /\ UNCHANGED <<today, contributions, tcBegun, tcOverlap, tcHist>>
    /\ UNCHANGED <<authVars, dataVars, reqVars>>

\* lines 58-67: update(...).eq(user_id).eq(contribution_date).execute() writes
\* every matching row; lines 69-70: no row updated leads to the insert of line 71.
TcUpdate(c) ==
    /\ pc[c] = "tc_update"
    /\ LET k == TcKey(c)
           rows == contributions[k] IN
       \/ /\ NoStoreFault
          /\ contributions' = [contributions EXCEPT
                 ![k] = [i \in 1..Len(rows) |-> TcNewCount(tc[c].count)]]
          /\ LET nxt == IF Len(rows) = 0 THEN "tc_insert_try" ELSE "tc_return" IN
             /\ TcGoto(c, nxt)
             /\ TcNote(c, nxt, [tcHist[c] EXCEPT !.updated = Len(rows) > 0])
       \/ /\ StoreFault
          /\ contributions' = contributions
          /\ TcGoto(c, TcOnFailure("tc_update"))
          /\ tcHist' = tcHist
    /\ UNCHANGED <<today, tc, tcBegun, tcOverlap>>
    /\ UNCHANGED <<authVars, dataVars, reqVars>>

\* lines 71-75 (inside the try block) and lines 80-84 (inside the except
\* clause): insert a row with contribution_count 1.
TcInsert(c) ==
    /\ pc[c] \in {"tc_insert_try", "tc_insert_except"}
    /\ LET k == TcKey(c) IN
       \/ /\ NoStoreFault
          /\ IF UniqueViolation(k)
             THEN /\ contributions' = contributions
                  /\ TcGoto(c, TcOnFailure(pc[c]))
                  /\ TcNote(c, TcOnFailure(pc[c]), [tcHist[c] EXCEPT !.rejected = TRUE])
             ELSE /\ contributions' = [contributions EXCEPT ![k] = Append(@, 1)]
                  /\ TcGoto(c, "tc_return")
                  /\ TcNote(c, "tc_return", [tcHist[c] EXCEPT !.inserted = TRUE])
       \/ /\ StoreFault
          /\ contributions' = contributions
          /\ TcGoto(c, TcOnFailure(pc[c]))
          /\ TcNote(c, TcOnFailure(pc[c]), tcHist[c])
    /\ UNCHANGED <<today, tc, tcBegun, tcOverlap>>
    /\ UNCHANGED <<authVars, dataVars, reqVars>>

\* The calendar day advances (date.today() of line 55 is read per call).
Tick ==
    /\ today < MaxDay
    /\ today' = today + 1
    /\ UNCHANGED <<pc, contributions, tc, tcBegun, tcDone, tcOverlap, tcHist, faults>>
    /\ UNCHANGED <<authVars, dataVars, reqVars>>

\* ------------------------------------------------------------------ requests
NoReq == [route |-> "none", qid |-> 1, fid |-> 1, uid |-> 1, file |-> Absent,
          hasTO |-> FALSE, old |-> Absent, new |-> Absent, dropped |-> {},
          end_date |-> <<>>, data |-> <<>>]

\* One row-store or blob-store call of a request, and whether it succeeded.
Call(op, ok) == [op |-> op, ok |-> ok]
Logged(c, op, ok) == log' = [log EXCEPT ![c] = Append(@, Call(op, ok))]

\* The handler of client c's request returns its response.
Ends(c, how) ==
    /\ pc' = [pc EXCEPT ![c] = "done"]
    /\ resp' = [resp EXCEPT ![c] = how]

\* ------------------------------------------------------- session and tokens
NoSession == [access_token |-> Absent, refresh_token |-> Absent, user |-> Absent]
NoResponse == [kind |-> "none", token |-> 0]
NoChk == [ran |-> FALSE, ok |-> FALSE, calls |-> 0, pre |-> NoSession,
          preValid |-> FALSE, out |-> NoResponse, post |-> NoSession]

\* The access token of session s has not expired.
TokenValid(s) == s.access_token # Absent /\ s.access_token[1] \in validAccess

\* What client.auth.refresh_session(refresh_token) can answer (line 98): a new
\* session when the provider accepts the refresh token, an error, or a response
\* that carries no session.
RefreshResponses(s) ==
    {[kind |-> "error", token |-> 0], [kind |-> "no_session", token |-> 0]}
    \cup (IF /\ s.refresh_token # Absent
             /\ s.refresh_token[1] \in validRefresh
             /\ nextTok <= MaxTokens
          THEN {[kind |-> "session", token |-> nextTok]}
          ELSE {})

\* lines 249-260: what sign_in_with_password can answer: a session for a user,
\* or an error (bad credentials, provider unavailable).
SignInResponses ==
    {[kind |-> "error", token |-> 0, user |-> 1]}
    \cup (IF nextTok <= MaxTokens
          THEN {[kind |-> "session", token |-> nextTok, user |-> u] : u \in Users}
          ELSE {})

\* The provider after answering: a new pair is valid, a used refresh token is not.
ProviderAfter(s, r) ==
    IF r.kind = "session"
    THEN /\ nextTok' = nextTok + 1
         /\ validAccess' = validAccess \cup {r.token}
         /\ validRefresh' = (validRefresh \ {t \in Tokens : s.refresh_token = Some(t)})
                            \cup {r.token}
    ELSE UNCHANGED <<nextTok, validAccess, validRefresh>>

\* refresh_jwt_if_needed (lines 90-112) on session s, r being the provider's
\* answer should it be asked: the result, the session afterwards, and the number
\* of provider calls made.
refresh_jwt_if_needed_keepRefresh(s, r) ==
    IF s.access_token = Absent \/ s.refresh_token = Absent
    THEN [ok |-> FALSE, session |-> s, calls |-> 0]
    ELSE CASE r.kind = "session" ->
                [ok |-> TRUE, calls |-> 1,
                 session |-> [s EXCEPT !.access_token = Some(r.token)]]
           [] r.kind = "error" ->
                [ok |-> FALSE, calls |-> 1, session |-> NoSession]
           [] OTHER ->
                [ok |-> FALSE, calls |-> 1, session |-> s]
refresh_jwt_if_needed_popAccess(s, r) ==
    IF s.access_token = Absent \/ s.refresh_token = Absent
    THEN [ok |-> FALSE, session |-> s, calls |-> 0]
    ELSE CASE r.kind = "session" ->
                [ok |-> TRUE, calls |-> 1,
                 session |-> [s EXCEPT !.access_token = Some(r.token),
                                       !.refresh_token = Some(r.token)]]
           [] r.kind = "error" ->
                [ok |-> FALSE, calls |-> 1,
                 session |-> [s EXCEPT !.access_token = Absent]]
           [] OTHER ->
                [ok |-> FALSE, calls |-> 1, session |-> s]
refresh_jwt_if_needed(s, r) ==
    IF s.access_token = Absent \/ s.refresh_token = Absent
    THEN [ok |-> FALSE, session |-> s, calls |-> 0]                 \* lines 92-93
    ELSE CASE r.kind = "session" ->                                 \* lines 100-104
                [ok |-> TRUE, calls |-> 1,
                 session |-> [s EXCEPT !.access_token = Some(r.token),
                                       !.refresh_token = Some(r.token)]]
           [] r.kind = "error" ->                                   \* lines 105-110
                [ok |-> FALSE, calls |-> 1, session |-> NoSession]
           [] OTHER ->                                              \* line 112
                [ok |-> FALSE, calls |-> 1, session |-> s]

\* login_required (lines 115-128): whether the wrapper calls refresh_jwt_if_needed
\* at all, and whether it runs the view given the refresh result.
GateChecks(s) == s.access_token # Absent /\ s.user # Absent
GateRunsView_always(s, refreshed) == GateChecks(s)
GateRunsView(s, refreshed) == GateChecks(s) /\ refreshed

\* The first position of each protected view.
ViewEntry(route) ==
    CASE route = "dashboard" -> "dash_select"
      [] route = "view_pdf" -> "vp_select"
      [] OTHER -> "idle"

\* POST /login (lines 239-260): one sign-in call; the session is written only
\* when it succeeds.
Login(c) ==
    /\ pc[c] = "idle"
    /\ begun < MaxVisits
    /\ \E r \in SignInResponses :
        /\ session' = [session EXCEPT ![c] =
                IF r.kind = "session"
                THEN [access_token |-> Some(r.token), refresh_token |-> Some(r.token),
                      user |-> Some(r.user)]
                ELSE @]
        /\ ProviderAfter(NoSession, r)
        /\ resp' = [resp EXCEPT ![c] = IF r.kind = "session" THEN "logged_in"
                                       ELSE "login_failed"]
    /\ log' = [log EXCEPT ![c] = <<>>]
    /\ chk' = [chk EXCEPT ![c] = NoChk]
    /\ UNCHANGED <<pc, faults, ledgerVars, dataVars, req>>
    /\ begun' = begun + 1

\* GET /logout (lines 265-269): session.clear().
Logout(c) ==
    /\ pc[c] = "idle"
    /\ begun < MaxVisits
    /\ session[c] # NoSession
    /\ session' = [session EXCEPT ![c] = NoSession]
    /\ resp' = [resp EXCEPT ![c] = "logged_out"]
    /\ log' = [log EXCEPT ![c] = <<>>]
    /\ chk' = [chk EXCEPT ![c] = NoChk]
    /\ UNCHANGED <<pc, faults, ledgerVars, dataVars, req>>
    /\ UNCHANGED <<nextTok, validAccess, validRefresh>>
    /\ begun' = begun + 1

\* Time passes: the access token a session holds expires.
ExpireAccess ==
    /\ \E c \in Browsers :
        /\ TokenValid(session[c])
        /\ validAccess' = validAccess \ {session[c].access_token[1]}
    /\ UNCHANGED <<pc, faults, ledgerVars, dataVars, reqVars>>
    /\ UNCHANGED <<session, nextTok, validRefresh, chk>>

\* The refresh token a session holds is revoked or expires.
RevokeRefresh ==
    /\ \E c \in Browsers :
        /\ session[c].refresh_token # Absent
        /\ session[c].refresh_token[1] \in validRefresh
        /\ validRefresh' = validRefresh \ {session[c].refresh_token[1]}
    /\ UNCHANGED <<pc, faults, ledgerVars, dataVars, reqVars>>
    /\ UNCHANGED <<session, nextTok, validAccess, chk>>

\* A request for a protected route arrives: the wrapper of login_required runs next.
BeginProtected(c) ==
    /\ pc[c] = "idle"
    /\ begun < MaxVisits
    /\ \/ req' = [req EXCEPT ![c] = [NoReq EXCEPT !.route = "dashboard"]]
       \/ \E q \in QIds :
            req' = [req EXCEPT ![c] = [NoReq EXCEPT !.route = "view_pdf", !.qid = q]]
    /\ pc' = [pc EXCEPT ![c] = "login_required"]
    /\ log' = [log EXCEPT ![c] = <<>>]
    /\ resp' = [resp EXCEPT ![c] = "none"]
    /\ chk' = [chk EXCEPT ![c] = NoChk]
    /\ UNCHANGED <<faults, ledgerVars, dataVars>>
    /\ UNCHANGED <<session, nextTok, validAccess, validRefresh>>
    /\ begun' = begun + 1

\* login_required's wrapper (lines 117-127), with the one provider call
\* refresh_jwt_if_needed makes: redirect to the login page, or run the view.
LoginRequired(c) ==
    /\ pc[c] = "login_required"
    /\ LET s == session[c] IN
       IF ~GateChecks(s)
       THEN /\ Ends(c, "redirect_login")
            /\ UNCHANGED <<session, nextTok, validAccess, validRefresh, chk>>
       ELSE \E r \in RefreshResponses(s) :
            LET res == refresh_jwt_if_needed(s, r) IN
            /\ session' = [session EXCEPT ![c] = res.session]
            /\ IF res.calls > 0 THEN ProviderAfter(s, r)
               ELSE UNCHANGED <<nextTok, validAccess, validRefresh>>
            /\ chk' = [chk EXCEPT ![c] =
                    [ran |-> TRUE, ok |-> res.ok, calls |-> res.calls, pre |-> s,
                     preValid |-> TokenValid(s),
                     out |-> IF res.calls > 0 THEN r ELSE NoResponse,
                     post |-> res.session]]
            /\ IF GateRunsView(s, res.ok)
               THEN /\ pc' = [pc EXCEPT ![c] = ViewEntry(req[c].route)]
                    /\ resp' = resp
               ELSE Ends(c, "redirect_login")
    /\ UNCHANGED <<faults, ledgerVars, dataVars, req, log>>
    /\ begun' = begun

\* --------------------------------------------------- rows, blobs and files
\* A file name is the sequence of its characters.
Lower(ch) ==
    CASE ch = "P" -> "p" [] ch = "D" -> "d" [] ch = "F" -> "f"
      [] ch = "A" -> "a" [] ch = "E" -> "e" [] ch = "X" -> "x"
      [] OTHER -> ch
LowerStr(str) == [i \in 1..Len(str) |-> Lower(str[i])]
HasDot(str) == \E i \in 1..Len(str) : str[i] = "."
LastDot(str) ==
    CHOOSE i \in 1..Len(str) : str[i] = "." /\ \A j \in (i + 1)..Len(str) : str[j] # "."
FirstDot(str) ==
    CHOOSE i \in 1..Len(str) : str[i] = "." /\ \A j \in 1..(i - 1) : str[j] # "."
\* filename.rsplit('.', 1)[1]
RSplitExt(str) == SubSeq(str, LastDot(str) + 1, Len(str))

\* line 29
ALLOWED_EXTENSIONS == {<<"p", "d", "f">>}

\* allowed_file (lines 145-146)
allowed_file_firstdot(filename) ==
    /\ HasDot(filename)
    /\ \E e \in ALLOWED_EXTENSIONS :
         LET rest == SubSeq(filename, FirstDot(filename) + 1, Len(filename)) IN
         Len(rest) >= Len(e) /\ LowerStr(SubSeq(rest, 1, Len(e))) = e
allowed_file(filename) ==
    HasDot(filename) /\ LowerStr(RSplitExt(filename)) \in ALLOWED_EXTENSIONS

\* The files a form can carry in its pdf_file field: none, or a file with a
\* name and a size.
File(name, size) == [name |-> name, size |-> size]
GoodFile == File(<<"a", ".", "P", "D", "F">>, MAX_FILE_SIZE)
Files ==
    { GoodFile,
      File(<<"a", ".", "p", "d", "f">>, MAX_FILE_SIZE + 1),
      File(<<"a">>, MAX_FILE_SIZE),
      File(<<"p", "d", "f">>, MAX_FILE_SIZE),
      File(<<"a", ".", "e", "x", "e">>, MAX_FILE_SIZE),
      File(<<"a", ".", "p", "d", "f", ".", "e", "x", "e">>, MAX_FILE_SIZE),
      File(<<>>, MAX_FILE_SIZE) }
FormFiles == {Absent} \cup {Some(f) : f \in Files}
\* The forms of the concurrent runs: no file, an accepted one, a refused one.
FewFiles == {Absent, Some(GoodFile), Some(File(<<"a", ".", "e", "x", "e">>, MAX_FILE_SIZE))}

\* lines 510-512 / 376-378 / 793-795: a file was submitted and allowed_file
\* accepts its name.
FileAllowed(file) ==
    file # Absent /\ file[1].name # <<>> /\ allowed_file(file[1].name)
\* lines 513-518 / 379-384 / 796-801: the size check that follows.
FileAccepted_nosize(file) == FileAllowed(file)
FileAccepted(file) == FileAllowed(file) /\ file[1].size <= MAX_FILE_SIZE

\* A question row.
Row(fid, path) == [folder_id |-> fid, pdf_file_path |-> path]
Exists(q) == questions[q] # Absent
PathOf(q) == questions[q][1].pdf_file_path

\* The states of the stores a run starts from: no question; one question
\* without an attachment; one question with its attachment stored.
DataInit ==
    /\ toColumn \in BOOLEAN
    /\ folders = FolderIds
    /\ \E start \in {"empty", "plain", "attached"} :
        /\ questions = [q \in QIds |->
              IF q = 1 /\ start # "empty"
              THEN Some(Row(1, IF start = "attached" THEN Some(<<1, 1>>) ELSE Absent))
              ELSE Absent]
        /\ blobs = IF start = "attached" THEN {<<1, 1>>} ELSE {}
        /\ nextKey = IF start = "attached" THEN 2 ELSE 1
        /\ nextQ = IF start = "empty" THEN 1 ELSE 2

AuthInit ==
    /\ session = [c \in Clients |-> NoSession]
    /\ nextTok = 1
    /\ validAccess = {}
    /\ validRefresh = {}
    /\ chk = [c \in Clients |-> NoChk]

\* The response has been sent: the client may make its next request.
Respond(c) ==
    /\ pc[c] = "done"
    /\ pc' = [pc EXCEPT ![c] = "idle"]
    /\ req' = [req EXCEPT ![c] = NoReq]
    /\ log' = [log EXCEPT ![c] = <<>>]
    /\ resp' = [resp EXCEPT ![c] = "none"]
    /\ chk' = [chk EXCEPT ![c] = NoChk]
    /\ UNCHANGED <<faults, ledgerVars, dataVars>>
    /\ UNCHANGED <<session, nextTok, validAccess, validRefresh>>
    /\ begun' = begun

\* ------------------------------------------------ read-only protected views
\* handle_jwt_error (lines 135-142): a redirect to the login page for an expired
\* JWT, nothing (after a flash) for any other error.
handle_jwt_error(error) == IF error = "jwt_expired" THEN "redirect_login" ELSE "none"

\* The row store's answer to a call made with the session's access token: an
\* expired JWT is refused (PGRST303); without a token the anonymous key sees no row.
StoreError(s) ==
    IF s.access_token # Absent /\ ~TokenValid(s) THEN "jwt_expired" ELSE "none"
Anonymous(s) == s.access_token = Absent

\* dashboard, GET (lines 298-322): list the folders.
DashSelect(c) ==
    /\ pc[c] = "dash_select"
    /\ \/ /\ NoStoreFault
          /\ LET err == StoreError(session[c]) IN
             IF err # "none"
             THEN /\ Logged(c, "data.select", FALSE)
                  /\ Ends(c, IF handle_jwt_error(err) # "none"
                             THEN handle_jwt_error(err) ELSE "rendered")
             ELSE /\ Logged(c, "data.select", TRUE)
                  /\ pc' = [pc EXCEPT ![c] = "dash_questions"]
                  /\ resp' = resp
       \/ /\ StoreFault
          /\ Logged(c, "data.select", FALSE)
          /\ Ends(c, IF handle_jwt_error("unavailable") # "none"
                     THEN handle_jwt_error("unavailable") ELSE "rendered")
    /\ UNCHANGED <<ledgerVars, authVars, dataVars, req>>
    /\ begun' = begun

\* dashboard, GET (lines 303-315): one select of questions per listed folder,
\* each failure replaced by an empty list.
DashQuestions(c) ==
    /\ pc[c] = "dash_questions"
    /\ LET listed == IF Anonymous(session[c]) THEN {} ELSE folders
           ok == StoreError(session[c]) = "none" IN
       log' = [log EXCEPT ![c] =
                 @ \o [i \in 1..Cardinality(listed) |-> Call("data.select", ok)]]
    /\ Ends(c, "rendered")
    /\ UNCHANGED <<faults, ledgerVars, authVars, dataVars, req>>
    /\ begun' = begun

\* view_pdf (lines 573-578): select the question's pdf_file_path.
VpSelect(c) ==
    /\ pc[c] = "vp_select"
    /\ LET q == req[c].qid
           s == session[c] IN
       \/ /\ NoStoreFault
          /\ IF StoreError(s) # "none" \/ Anonymous(s) \/ ~Exists(q)
             THEN /\ Logged(c, "data.select", FALSE)
                  /\ Ends(c, "error_500")
                  /\ req' = req
             ELSE /\ Logged(c, "data.select", TRUE)
                  /\ IF PathOf(q) = Absent
                     THEN /\ Ends(c, "not_found_404")
                          /\ req' = req
                     ELSE /\ pc' = [pc EXCEPT ![c] = "vp_download"]
                          /\ resp' = resp
                          /\ req' = [req EXCEPT ![c].old = PathOf(q)]
       \/ /\ StoreFault
          /\ Logged(c, "data.select", FALSE)
          /\ Ends(c, "error_500")
          /\ req' = req
    /\ UNCHANGED <<ledgerVars, authVars, dataVars>>
    /\ begun' = begun

\* view_pdf (lines 580-598): download the blob with the service key.
VpDownload(c) ==
    /\ pc[c] = "vp_download"
    /\ \/ /\ NoStoreFault
          /\ Logged(c, "blob.download", req[c].old[1] \in blobs)
          /\ Ends(c, IF req[c].old[1] \in blobs THEN "sent_file" ELSE "error_500")
       \/ /\ StoreFault
          /\ Logged(c, "blob.download", FALSE)
          /\ Ends(c, "error_500")
    /\ UNCHANGED <<ledgerVars, authVars, dataVars, req>>
    /\ begun' = begun

\* ------------------------------------------------------- question handlers
\* lines 402-421 / 545-562 / 819-840: the handlers' except clause issues the
\* write again, without terminal_output, when the error text names that column.
ExceptRetries(error) == error = "terminal_output"

\* The error of a write that carries terminal_output: the column may be missing.
ColumnError(withTO) == IF withTO /\ ~toColumn THEN "terminal_output" ELSE "none"

\* delete_file_from_supabase (lines 183-192): the blob is removed, or the
\* failure is printed and False returned.
RemoveBlob(c, key) ==
    \/ /\ NoStoreFault
       /\ blobs' = blobs \ {key}
       /\ Logged(c, "blob.remove", TRUE)
    \/ /\ StoreFault
       /\ blobs' = blobs
       /\ Logged(c, "blob.remove", FALSE)

\* lines 189-192: whether a failed remove call leaves delete_file_from_supabase
\* as an exception: the except clause prints it and returns False.
RemoveRaises_propagates(removed) == ~removed
RemoveRaises(removed) == FALSE

\* The position after delete_file_from_supabase, nxt being the caller's next
\* statement: an exception would enter the caller's except clause.
AfterRemove(c, nxt) ==
    LET removed == log'[c][Len(log'[c])].ok IN
    IF RemoveRaises(removed) THEN Ends(c, "failed")
    ELSE pc' = [pc EXCEPT ![c] = nxt] /\ resp' = resp

\* upload_file_to_supabase (lines 149-180): the blob is stored under a fresh
\* key and its file_info returned, or None is returned.
UploadBlob(c) ==
    \/ /\ NoStoreFault
       /\ nextKey <= MaxKeys
       /\ blobs' = blobs \cup {<<req[c].qid, nextKey>>}
       /\ nextKey' = nextKey + 1
       /\ req' = [req EXCEPT ![c].new = Some(<<req[c].qid, nextKey>>)]
       /\ Logged(c, "blob.upload", TRUE)
    \/ /\ StoreFault
       /\ UNCHANGED <<blobs, nextKey, req>>
       /\ Logged(c, "blob.upload", FALSE)

\* update_question is entered (lines 474-518) with a title: the form's file is
\* validated before any call is made.
BeginUpdate(c, forms) ==
    /\ pc[c] = "idle"
    /\ begun < MaxRequests
    /\ begun' = begun + 1
    /\ \E q \in QIds, file \in forms, to \in BOOLEAN :
        /\ req' = [req EXCEPT ![c] = [NoReq EXCEPT !.route = "update_question",
                                        !.qid = q, !.file = file, !.hasTO = to]]
        /\ pc' = [pc EXCEPT ![c] = IF FileAccepted(file) THEN "uq_select"
                                   ELSE "uq_update"]
    /\ log' = [log EXCEPT ![c] = <<>>]
    /\ resp' = [resp EXCEPT ![c] = "none"]
    /\ UNCHANGED <<faults, ledgerVars, authVars, dataVars>>

\* line 520: select pdf_file_path ... single(); lines 523, 526 choose what follows.
UqSelect(c) ==
    /\ pc[c] = "uq_select"
    /\ LET q == req[c].qid IN
       \/ /\ NoStoreFault
          /\ IF Exists(q)
             THEN /\ Logged(c, "data.select", TRUE)
                  /\ req' = [req EXCEPT ![c].old = PathOf(q)]
                  /\ pc' = [pc EXCEPT ![c] = IF PathOf(q) # Absent THEN "uq_remove"
                                             ELSE "uq_upload"]
                  /\ resp' = resp
             ELSE /\ Logged(c, "data.select", FALSE)
                  /\ req' = req
                  /\ Ends(c, "failed")
       \/ /\ StoreFault
          /\ Logged(c, "data.select", FALSE)
          /\ req' = req
          /\ Ends(c, "failed")
    /\ UNCHANGED <<ledgerVars, authVars, dataVars>>
    /\ begun' = begun

\* lines 522-524: delete the old PDF.
UqRemove(c) ==
    /\ pc[c] = "uq_remove"
    /\ RemoveBlob(c, req[c].old[1])
    /\ AfterRemove(c, "uq_upload")
    /\ UNCHANGED <<ledgerVars, authVars, req>>
    /\ UNCHANGED <<folders, questions, nextKey, nextQ, toColumn>>
    /\ begun' = begun

\* lines 526-535: upload the new file.
UqUpload(c) ==
    /\ pc[c] = "uq_upload"
    /\ UploadBlob(c)
    /\ pc' = [pc EXCEPT ![c] = "uq_update"]
    /\ UNCHANGED <<ledgerVars, authVars, resp>>
    /\ UNCHANGED <<folders, questions, nextQ, toColumn>>
    /\ begun' = begun

\* lines 541-547: the update of the question row, with the pdf fields when a
\* file was uploaded.
UqUpdate(c) ==
    /\ pc[c] = "uq_update"
    /\ LET q == req[c].qid
           err == ColumnError(req[c].hasTO) IN
       \/ /\ NoStoreFault
          /\ IF err # "none"
             THEN /\ Logged(c, "data.update", FALSE)
                  /\ questions' = questions
                  /\ IF ExceptRetries(err)
                     THEN pc' = [pc EXCEPT ![c] = "uq_fallback"] /\ resp' = resp
                     ELSE Ends(c, "failed")
             ELSE /\ Logged(c, "data.update", TRUE)
                  /\ questions' = IF Exists(q) /\ req[c].new # Absent
                                  THEN [questions EXCEPT ![q] =
                                          Some([@[1] EXCEPT !.pdf_file_path = req[c].new])]
                                  ELSE questions
                  /\ Ends(c, "ok")
       \/ /\ StoreFault
          /\ Logged(c, "data.update", FALSE)
          /\ questions' = questions
          /\ IF ExceptRetries("unavailable")
             THEN pc' = [pc EXCEPT ![c] = "uq_fallback"] /\ resp' = resp
             ELSE Ends(c, "failed")
    /\ UNCHANGED <<ledgerVars, authVars, req>>
    /\ UNCHANGED <<folders, blobs, nextKey, nextQ, toColumn>>
    /\ begun' = begun

\* lines 548-560: the update again, without terminal_output and the pdf fields.
UqFallback(c) ==
    /\ pc[c] = "uq_fallback"
    /\ \/ /\ NoStoreFault
          /\ Logged(c, "data.update", TRUE)
          /\ Ends(c, "ok_fallback")
       \/ /\ StoreFault
          /\ Logged(c, "data.update", FALSE)
          /\ Ends(c, "failed")
    /\ UNCHANGED <<ledgerVars, authVars, dataVars, req>>
    /\ begun' = begun

\* delete_question is entered (lines 700-702).
BeginDeleteQuestion(c) ==
    /\ pc[c] = "idle"
    /\ begun < MaxRequests
    /\ begun' = begun + 1
    /\ \E q \in QIds :
        req' = [req EXCEPT ![c] = [NoReq EXCEPT !.route = "delete_question", !.qid = q]]
    /\ pc' = [pc EXCEPT ![c] = "dq_select"]
    /\ log' = [log EXCEPT ![c] = <<>>]
    /\ resp' = [resp EXCEPT ![c] = "none"]
    /\ UNCHANGED <<faults, ledgerVars, authVars, dataVars>>

\* lines 706-712: select the question, single().
DqSelect(c) ==
    /\ pc[c] = "dq_select"
    /\ LET q == req[c].qid IN
       \/ /\ NoStoreFault
          /\ IF Exists(q)
             THEN /\ Logged(c, "data.select", TRUE)
                  /\ req' = [req EXCEPT ![c].old = PathOf(q)]
                  /\ pc' = [pc EXCEPT ![c] = IF PathOf(q) # Absent THEN "dq_remove"
                                             ELSE "dq_delete"]
                  /\ resp' = resp
             ELSE /\ Logged(c, "data.select", FALSE)
                  /\ req' = req
                  /\ Ends(c, "failed")
       \/ /\ StoreFault
          /\ Logged(c, "data.select", FALSE)
          /\ req' = req
          /\ Ends(c, "failed")
    /\ UNCHANGED <<ledgerVars, authVars, dataVars>>
    /\ begun' = begun

\* lines 711-713: delete the associated PDF.
DqRemove(c) ==
    /\ pc[c] = "dq_remove"
    /\ RemoveBlob(c, req[c].old[1])
    /\ AfterRemove(c, "dq_delete")
    /\ UNCHANGED <<ledgerVars, authVars, req>>
    /\ UNCHANGED <<folders, questions, nextKey, nextQ, toColumn>>
    /\ begun' = begun

\* The attachment keys of the rows a delete removes.
PathsOf(qs) == {k \in StorageKeys : \E q \in qs : Exists(q) /\ PathOf(q) = Some(k)}

\* lines 715-717: delete the question row.
DqDelete(c) ==
    /\ pc[c] = "dq_delete"
    /\ LET q == req[c].qid IN
       \/ /\ NoStoreFault
          /\ Logged(c, "data.delete", TRUE)
          /\ questions' = [questions EXCEPT ![q] = Absent]
          /\ req' = [req EXCEPT ![c].dropped = PathsOf({q})]
          /\ Ends(c, "ok")
       \/ /\ StoreFault
          /\ Logged(c, "data.delete", FALSE)
          /\ UNCHANGED <<questions, req>>
          /\ Ends(c, "failed")
    /\ UNCHANGED <<ledgerVars, authVars>>
    /\ UNCHANGED <<folders, blobs, nextKey, nextQ, toColumn>>
    /\ begun' = begun

\* delete_folder is entered (lines 726-728).
BeginDeleteFolder(c) ==
    /\ pc[c] = "idle"
    /\ begun < MaxRequests
    /\ begun' = begun + 1
    /\ \E f \in FolderIds :
        req' = [req EXCEPT ![c] = [NoReq EXCEPT !.route = "delete_folder", !.fid = f]]
    /\ pc' = [pc EXCEPT ![c] = "df_select"]
    /\ log' = [log EXCEPT ![c] = <<>>]
    /\ resp' = [resp EXCEPT ![c] = "none"]
    /\ UNCHANGED <<faults, ledgerVars, authVars, dataVars>>

\* lines 731-735: select the folder, single().
DfSelect(c) ==
    /\ pc[c] = "df_select"
    /\ \/ /\ NoStoreFault
          /\ IF req[c].fid \in folders
             THEN /\ Logged(c, "data.select", TRUE)
                  /\ pc' = [pc EXCEPT ![c] = "df_delete"]
                  /\ resp' = resp
             ELSE /\ Logged(c, "data.select", FALSE)
                  /\ Ends(c, "failed")
       \/ /\ StoreFault
          /\ Logged(c, "data.select", FALSE)
          /\ Ends(c, "failed")
    /\ UNCHANGED <<ledgerVars, authVars, dataVars, req>>
    /\ begun' = begun

\* The questions the foreign key removes with a folder (line 737).
InFolder(f) == {q \in QIds : Exists(q) /\ questions[q][1].folder_id = f}

\* lines 737-739: delete the folder row; its questions go with it.
DfDelete(c) ==
    /\ pc[c] = "df_delete"
    /\ LET f == req[c].fid IN
       \/ /\ NoStoreFault
          /\ Logged(c, "data.delete", TRUE)
          /\ folders' = folders \ {f}
          /\ questions' = [q \in QIds |-> IF q \in InFolder(f) THEN Absent
                                          ELSE questions[q]]
          /\ req' = [req EXCEPT ![c].dropped = PathsOf(InFolder(f))]
          /\ Ends(c, "ok")
       \/ /\ StoreFault
          /\ Logged(c, "data.delete", FALSE)
          /\ UNCHANGED <<folders, questions, req>>
          /\ Ends(c, "failed")
    /\ UNCHANGED <<ledgerVars, authVars>>
    /\ UNCHANGED <<blobs, nextKey, nextQ, toColumn>>
    /\ begun' = begun

\* folder_detail (POST, lines 334-350) or add_question_to_folder (lines
\* 748-766) is entered with a title.
BeginCreate(c, forms) ==
    /\ pc[c] = "idle"
    /\ begun < MaxRequests
    /\ begun' = begun + 1
    /\ nextQ <= MaxQuestions
    /\ \E route \in {"folder_detail", "add_question_to_folder"}, f \in FolderIds,
          file \in forms, to \in BOOLEAN, u \in Users :
        req' = [req EXCEPT ![c] = [NoReq EXCEPT !.route = route, !.fid = f, !.uid = u,
                                     !.file = file, !.hasTO = to]]
    /\ pc' = [pc EXCEPT ![c] = "cq_insert"]
    /\ log' = [log EXCEPT ![c] = <<>>]
    /\ resp' = [resp EXCEPT ![c] = "none"]
    /\ UNCHANGED <<faults, ledgerVars, authVars, dataVars>>

\* The insert of a question row into folder f: the row gets a fresh id; a
\* folder that is gone violates the foreign key.
InsertQuestion(c, f) ==
    /\ nextQ <= MaxQuestions
    /\ questions' = [questions EXCEPT ![nextQ] = Some(Row(f, Absent))]
    /\ nextQ' = nextQ + 1
    /\ req' = [req EXCEPT ![c].qid = nextQ]

\* lines 351-373 / 768-790: insert the question, then track the contribution.
CqInsert(c) ==
    /\ pc[c] = "cq_insert"
    /\ LET err == ColumnError(req[c].hasTO) IN
       \/ /\ NoStoreFault
          /\ err = "none" /\ req[c].fid \in folders
          /\ InsertQuestion(c, req[c].fid)
          /\ Logged(c, "data.insert", TRUE)
          /\ TcEnter(c, req[c].uid, "cq_file")
          /\ pc' = [pc EXCEPT ![c] = "tc_select"]
          /\ resp' = resp
       \/ /\ NoStoreFault
          /\ err # "none" \/ req[c].fid \notin folders
          /\ Logged(c, "data.insert", FALSE)
          /\ IF ExceptRetries(err)
             THEN pc' = [pc EXCEPT ![c] = "cq_fallback"] /\ resp' = resp
             ELSE Ends(c, "failed")
          /\ UNCHANGED <<questions, nextQ, req, tc, tcBegun, tcOverlap, tcHist>>
       \/ /\ StoreFault
          /\ Logged(c, "data.insert", FALSE)
          /\ IF ExceptRetries("unavailable")
             THEN pc' = [pc EXCEPT ![c] = "cq_fallback"] /\ resp' = resp
             ELSE Ends(c, "failed")
          /\ UNCHANGED <<questions, nextQ, req, tc, tcBegun, tcOverlap, tcHist>>
    /\ UNCHANGED <<today, contributions, tcDone, authVars>>
    /\ UNCHANGED <<folders, blobs, nextKey, toColumn>>
    /\ begun' = begun

\* lines 375-399 / 792-816: the form's file is validated and, when accepted,
\* uploaded.
CqFile(c) ==
    /\ pc[c] = "cq_file"
    /\ IF FileAccepted(req[c].file)
       THEN /\ UploadBlob(c)
            /\ IF req'[c].new # Absent
               THEN pc' = [pc EXCEPT ![c] = "cq_update"] /\ resp' = resp
               ELSE Ends(c, "ok_upload_failed")
       ELSE /\ Ends(c, "ok")
            /\ UNCHANGED <<faults, blobs, nextKey, req, log>>
    /\ UNCHANGED <<ledgerVars, authVars>>
    /\ UNCHANGED <<folders, questions, nextQ, toColumn>>
    /\ begun' = begun

\* lines 387-393 / 804-810: update the question with the file info.
CqUpdate(c) ==
    /\ pc[c] = "cq_update"
    /\ LET q == req[c].qid IN
       \/ /\ NoStoreFault
          /\ Logged(c, "data.update", TRUE)
          /\ questions' = IF Exists(q)
                          THEN [questions EXCEPT ![q] =
                                  Some([@[1] EXCEPT !.pdf_file_path = req[c].new])]
                          ELSE questions
          /\ Ends(c, "ok")
       \/ /\ StoreFault
          /\ Logged(c, "data.update", FALSE)
          /\ questions' = questions
          /\ Ends(c, "failed")
    /\ UNCHANGED <<ledgerVars, authVars, req>>
    /\ UNCHANGED <<folders, blobs, nextKey, nextQ, toColumn>>
    /\ begun' = begun

\* lines 404-419 / 821-838: the insert again, without terminal_output;
\* add_question_to_folder then tracks the contribution.
CqFallback(c) ==
    /\ pc[c] = "cq_fallback"
    /\ \/ /\ NoStoreFault
          /\ req[c].fid \in folders
          /\ InsertQuestion(c, req[c].fid)
          /\ Logged(c, "data.insert", TRUE)
          /\ IF req[c].route = "add_question_to_folder"
             THEN /\ TcEnter(c, req[c].uid, "cq_end")
                  /\ pc' = [pc EXCEPT ![c] = "tc_select"]
                  /\ resp' = resp
             ELSE /\ Ends(c, "ok_fallback")
                  /\ UNCHANGED <<tc, tcBegun, tcOverlap, tcHist>>
       \/ /\ NoStoreFault
          /\ req[c].fid \notin folders
          /\ Logged(c, "data.insert", FALSE)
          /\ Ends(c, "failed")
          /\ UNCHANGED <<questions, nextQ, req, tc, tcBegun, tcOverlap, tcHist>>
       \/ /\ StoreFault
          /\ Logged(c, "data.insert", FALSE)
          /\ Ends(c, "failed")
          /\ UNCHANGED <<questions, nextQ, req, tc, tcBegun, tcOverlap, tcHist>>
    /\ UNCHANGED <<today, contributions, tcDone, authVars>>
    /\ UNCHANGED <<folders, blobs, nextKey, toColumn>>
    /\ begun' = begun

\* lines 836-842: the flash and the redirect after the fallback's tracking.
CqEnd(c) ==
    /\ pc[c] = "cq_end"
    /\ Ends(c, "ok_fallback")
    /\ UNCHANGED <<faults, ledgerVars, authVars, dataVars, req, log>>
    /\ begun' = begun

\* ------------------------------------------------------ contributions query
\* line 956: timedelta(days=180)
RANGE_DAYS == 180

\* datetime.date: a calendar date is <<year, month, day>>.
IsLeap(y) == (y % 4 = 0 /\ y % 100 # 0) \/ y % 400 = 0
DaysInMonth(y, m) ==
    CASE m = 2 -> IF IsLeap(y) THEN 29 ELSE 28
      [] m \in {4, 6, 9, 11} -> 30
      [] OTHER -> 31

\* date.toordinal(): the days before the year, before the month, and the day.
DaysBeforeYear(y) ==
    (y - 1) * 365 + (y - 1) \div 4 - (y - 1) \div 100 + (y - 1) \div 400
DaysBeforeMonthTable == <<0, 31, 59, 90, 120, 151, 181, 212, 243, 273, 304, 334>>
DaysBeforeMonth(y, m) ==
    DaysBeforeMonthTable[m] + (IF m > 2 /\ IsLeap(y) THEN 1 ELSE 0)
ToOrdinal(d) == DaysBeforeYear(d[1]) + DaysBeforeMonth(d[1], d[2]) + d[3]

\* date.fromordinal(): the year from the 400-, 100-, 4- and 1-year cycles, then
\* the month and the day within the year.
FromOrdinal(ord) ==
    LET n0 == ord - 1
        n400 == n0 \div 146097
        r400 == n0 % 146097
        n100 == r400 \div 36524
        r100 == r400 % 36524
        n4 == r100 \div 1461
        r4 == r100 % 1461
        n1 == r4 \div 365
        n == r4 % 365
        year == n400 * 400 + 1 + n100 * 100 + n4 * 4 + n1
        leapyear == n1 = 3 /\ (n4 # 24 \/ n100 = 3)
        guess == (n + 50) \div 32
        before(m) == DaysBeforeMonthTable[m] + (IF m > 2 /\ leapyear THEN 1 ELSE 0)
        month == IF before(guess) > n THEN guess - 1 ELSE guess
    IN  IF n1 = 4 \/ n100 = 4 THEN <<year - 1, 12, 31>>
        ELSE <<year, month, n - before(month) + 1>>

\* date + timedelta(days=n), date - timedelta(days=n) (lines 956, 997)
PlusDays(d, n) == FromOrdinal(ToOrdinal(d) + n)
MinusDays(d, n) == FromOrdinal(ToOrdinal(d) - n)

\* date <= date (line 967), date < date
DateLess(a, b) ==
    \/ a[1] < b[1]
    \/ a[1] = b[1] /\ a[2] < b[2]
    \/ a[1] = b[1] /\ a[2] = b[2] /\ a[3] < b[3]
DateLeq(a, b) == a = b \/ DateLess(a, b)

\* The calendar date of the model's first day, and of its day n: the days run
\* over the end of a leap February.
FirstDate == <<2024, 2, 28>>
DateOfDay(n) == PlusDays(FirstDate, n - 1)

\* date.isoformat(): "YYYY-MM-DD", a string being the sequence of its characters.
DigitChar(n) == <<"0", "1", "2", "3", "4", "5", "6", "7", "8", "9">>[n + 1]
TwoDigits(n) == <<DigitChar(n \div 10), DigitChar(n % 10)>>
isoformat(d) ==
    TwoDigits(d[1] \div 100) \o TwoDigits(d[1] % 100) \o <<"-">>
        \o TwoDigits(d[2]) \o <<"-">> \o TwoDigits(d[3])

\* lines 971-989: the darkness level of a count.
Level_off(count) ==
    CASE count = 0 -> 0
      [] count <= 1 -> 1
      [] count <= 4 -> 2
      [] count <= 7 -> 3
      [] count <= 10 -> 4
      [] count <= 14 -> 5
      [] count <= 17 -> 6
      [] count <= 22 -> 7
      [] OTHER -> 8
Level(count) ==
    IF count = 0 THEN 0
    ELSE IF count <= 1 THEN 1
    ELSE IF count <= 4 THEN 2
    ELSE IF count <= 7 THEN 3
    ELSE IF count <= 10 THEN 4
    ELSE IF count <= 14 THEN 5
    ELSE IF count <= 17 THEN 6
    ELSE IF count <= 21 THEN 7
    ELSE 8

\* line 958: the rows of user u dated start_date or later, as the store returns
\* them: contribution_date as an ISO string, contribution_count.
GcRows(u, start_date) ==
    UNION {{[contribution_date |-> isoformat(DateOfDay(k[2])),
             contribution_count |-> contributions[k][i]] : i \in DOMAIN contributions[k]} :
           k \in {kk \in LedgerKeys : kk[1] = u /\ DateLeq(start_date, DateOfDay(kk[2]))}}

\* line 969: contribution_dict.get(date_str, 0) over the dict of line 961.
GcGet(rows, date_str) ==
    IF \E r \in rows : r.contribution_date = date_str
    THEN (CHOOSE r \in rows : r.contribution_date = date_str).contribution_count
    ELSE 0

\* line 967: the loop's condition.
GcContinues_exclusive(current_date, end_date) == DateLess(current_date, end_date)
GcContinues(current_date, end_date) == DateLeq(current_date, end_date)

\* lines 964-997: the loop that builds contribution_data.  Iteration i (from 0)
\* sees current_date = start_date + i days; the loop runs the iterations before
\* the first one whose date fails the condition, each appending one entry.
GcIterations(start_date, end_date) ==
    LET first == ToOrdinal(start_date)
        stops == {i \in 0..(RANGE_DAYS + 1) :
                     ~GcContinues(FromOrdinal(first + i), end_date)}
        last == CHOOSE i \in stops : \A j \in stops : i <= j IN
    0..(last - 1)
GcEntry(current_date, rows) ==
    LET date_str == isoformat(current_date)
        count == GcGet(rows, date_str) IN
    [date |-> date_str, count |-> count, level |-> Level(count)]
GcLoop(start_date, end_date, rows) ==
    [n \in 1..Cardinality(GcIterations(start_date, end_date)) |->
        GcEntry(PlusDays(start_date, n - 1), rows)]

\* get_contributions is entered (lines 951-956): date.today() is read once.
GcBegin(c) ==
    /\ pc[c] = "idle"
    /\ \E u \in Users :
        req' = [req EXCEPT ![c] = [NoReq EXCEPT !.route = "get_contributions",
                                     !.uid = u, !.end_date = DateOfDay(today)]]
    /\ pc' = [pc EXCEPT ![c] = "gc_select"]
    /\ log' = [log EXCEPT ![c] = <<>>]
    /\ resp' = [resp EXCEPT ![c] = "none"]
    /\ UNCHANGED <<faults, ledgerVars, authVars, dataVars, begun>>

\* lines 958-1002: the select, then the loop over the days of the range; any
\* exception is answered with success False and status 500.
GcSelect(c) ==
    /\ pc[c] = "gc_select"
    /\ LET end_date == req[c].end_date
           start_date == MinusDays(end_date, RANGE_DAYS) IN
       \/ /\ NoStoreFault
          /\ Logged(c, "data.select", TRUE)
          /\ req' = [req EXCEPT ![c].data =
                        GcLoop(start_date, end_date, GcRows(req[c].uid, start_date))]
          /\ Ends(c, "ok")
       \/ /\ StoreFault
          /\ Logged(c, "data.select", FALSE)
          /\ req' = req
          /\ Ends(c, "error_500")
    /\ UNCHANGED <<ledgerVars, authVars, dataVars, begun>>

LedgerInit ==
    /\ today = 1
    /\ contributions = [k \in LedgerKeys |-> <<>>]
    /\ tc = [c \in Clients |-> NoCall]
    /\ tcBegun = [k \in LedgerKeys |-> 0]
    /\ tcDone = [k \in LedgerKeys |-> 0]
    /\ tcOverlap = [k \in LedgerKeys |-> FALSE]
    /\ tcHist = [c \in Clients |-> NoHist]

Init ==
    /\ pc = [c \in Clients |-> "idle"]
    /\ faults = 0
    /\ LedgerInit
    /\ AuthInit
    /\ DataInit
    /\ req = [c \in Clients |-> NoReq]
    /\ log = [c \in Clients |-> <<>>]
    /\ resp = [c \in Clients |-> "none"]
    /\ begun = 0

LedgerNext ==
    \/ \E c \in Clients : TcCall(c)
    \/ \E c \in Clients : TcSelect(c)
    \/ \E c \in Clients : TcUpdate(c)
    \/ \E c \in Clients : TcInsert(c)
    \/ Tick

\* The ledger runs start with no question stored.
LedgerRunInit == Init /\ toColumn /\ \A q \in QIds : ~Exists(q)

SpecLedger == LedgerRunInit /\ [][LedgerNext]_vars

SessionNext ==
    \/ \E c \in Browsers : Login(c)
    \/ \E c \in Browsers : Logout(c)
    \/ ExpireAccess
    \/ RevokeRefresh
    \/ \E c \in Browsers : BeginProtected(c)
    \/ \E c \in Browsers : LoginRequired(c)
    \/ \E c \in Browsers : DashSelect(c)
    \/ \E c \in Browsers : DashQuestions(c)
    \/ \E c \in Browsers : VpSelect(c)
    \/ \E c \in Browsers : VpDownload(c)
    \/ \E c \in Browsers : Respond(c)

AttachNext ==
    \/ \E c \in Clients : BeginUpdate(c, FewFiles)
    \/ \E c \in Clients : UqSelect(c)
    \/ \E c \in Clients : UqRemove(c)
    \/ \E c \in Clients : UqUpload(c)
    \/ \E c \in Clients : UqUpdate(c)
    \/ \E c \in Clients : UqFallback(c)
    \/ \E c \in Clients : BeginDeleteQuestion(c)
    \/ \E c \in Clients : DqSelect(c)
    \/ \E c \in Clients : DqRemove(c)
    \/ \E c \in Clients : DqDelete(c)
    \/ \E c \in Clients : BeginDeleteFolder(c)
    \/ \E c \in Clients : DfSelect(c)
    \/ \E c \in Clients : DfDelete(c)
    \/ \E c \in Clients : BeginCreate(c, FewFiles)
    \/ \E c \in Clients : CqInsert(c)
    \/ \E c \in Clients : CqFile(c)
    \/ \E c \in Clients : CqUpdate(c)
    \/ \E c \in Clients : CqFallback(c)
    \/ \E c \in Clients : CqEnd(c)
    \/ \E c \in Clients : TcSelect(c)
    \/ \E c \in Clients : TcUpdate(c)
    \/ \E c \in Clients : TcInsert(c)
    \/ \E c \in Clients : Respond(c)

SpecAttach == Init /\ [][AttachNext]_vars

\* One client, one request at a time, every form.
FormClient == {c \in Clients : \A d \in Clients : c <= d}

FormsNext ==
    \/ \E c \in FormClient : BeginUpdate(c, FormFiles)
    \/ \E c \in FormClient : UqSelect(c)
    \/ \E c \in FormClient : UqRemove(c)
    \/ \E c \in FormClient : UqUpload(c)
    \/ \E c \in FormClient : UqUpdate(c)
    \/ \E c \in FormClient : UqFallback(c)
    \/ \E c \in FormClient : BeginDeleteQuestion(c)
    \/ \E c \in FormClient : DqSelect(c)
    \/ \E c \in FormClient : DqRemove(c)
    \/ \E c \in FormClient : DqDelete(c)
    \/ \E c \in FormClient : BeginDeleteFolder(c)
    \/ \E c \in FormClient : DfSelect(c)
    \/ \E c \in FormClient : DfDelete(c)
    \/ \E c \in FormClient : BeginCreate(c, FormFiles)
    \/ \E c \in FormClient : CqInsert(c)
    \/ \E c \in FormClient : CqFile(c)
    \/ \E c \in FormClient : CqUpdate(c)
    \/ \E c \in FormClient : CqFallback(c)
    \/ \E c \in FormClient : CqEnd(c)
    \/ \E c \in FormClient : TcSelect(c)
    \/ \E c \in FormClient : TcUpdate(c)
    \/ \E c \in FormClient : TcInsert(c)
    \/ \E c \in FormClient : Respond(c)

SpecForms == Init /\ [][FormsNext]_vars

\* The session runs start with the terminal_output column in place.
SessionInit == Init /\ toColumn

SpecSession == SessionInit /\ [][SessionNext]_vars

\* The counts a stored row starts with.
MaxCount == 23

\* Runs that start with at most one row stored, dated the first day, of any
\* count a day's tracking can have reached.
StoredRowInit ==
    /\ pc = [c \in Clients |-> "idle"]
    /\ faults = 0
    /\ today = 1
    /\ \/ contributions = [k \in LedgerKeys |-> <<>>]
       \/ \E k0 \in {k \in LedgerKeys : k[2] = 1}, n \in 1..MaxCount :
            contributions = [k \in LedgerKeys |-> IF k = k0 THEN <<n>> ELSE <<>>]
    /\ tc = [c \in Clients |-> NoCall]
    /\ tcBegun = [k \in LedgerKeys |-> 0]
    /\ tcDone = [k \in LedgerKeys |-> 0]
    /\ tcOverlap = [k \in LedgerKeys |-> FALSE]
    /\ tcHist = [c \in Clients |-> NoHist]
    /\ AuthInit
    /\ DataInit /\ toColumn /\ \A q \in QIds : ~Exists(q)
    /\ req = [c \in Clients |-> NoReq]
    /\ log = [c \in Clients |-> <<>>]
    /\ resp = [c \in Clients |-> "none"]
    /\ begun = 0

\* One client queries the stored contributions, one request at a time, as
\* the days pass.
HeatmapNext ==
    \/ Tick
    \/ \E c \in FormClient : GcBegin(c)
    \/ \E c \in FormClient : GcSelect(c)
    \/ \E c \in FormClient : Respond(c)

SpecHeatmap == StoredRowInit /\ [][HeatmapNext]_vars

\* Concurrent tracking calls on a ledger that may already hold a row.
SpecTally == StoredRowInit /\ [][LedgerNext]_vars

\* ------------------------------------------------------------ ledger claims
LedgerRows(k) == contributions[k]
TcOver(c) == pc[c] \notin TcPositions /\ (tcHist[c].returned \/ tcHist[c].raised)

\* C4: two track_contribution calls for the same (user, day), in any
\* interleaving, starting with no row for that day and with no store failure:
\* once both are over neither has raised, exactly one row is stored for the
\* (user, day), and its count is 1 or 2.
C4_TwoCallsOneRow ==
    \A k \in LedgerKeys :
        (tcBegun[k] = 2 /\ tcDone[k] = 2 /\ faults = 0) =>
            /\ \A c \in Clients : TcKey(c) = k => pc[c] # "tc_raise" /\ ~tcHist[c].raised
            /\ Len(LedgerRows(k)) = 1
            /\ LedgerRows(k)[1] \in 1..2

\* The race of C4: two overlapping calls, both over, one increment lost.
C4_Witness ==
    \E k \in LedgerKeys :
        /\ tcBegun[k] = 2 /\ tcDone[k] = 2 /\ faults = 0 /\ tcOverlap[k]
        /\ LedgerRows(k) = <<1>>

\* C9: after n sequential (never overlapping) calls for one (user, day), with
\* no store failure and starting with no row, exactly one row is stored for
\* the (user, day) and its count is n.
C9_SequentialCount ==
    \A k \in LedgerKeys :
        (~tcOverlap[k] /\ faults = 0 /\ TcActive(k) = {} /\ tcDone[k] > 0) =>
            LedgerRows(k) = <<tcDone[k]>>

\* Three sequential calls: one insert, then two increments.
C9_Witness ==
    \E k \in LedgerKeys :
        /\ ~tcOverlap[k] /\ faults = 0 /\ TcActive(k) = {}
        /\ tcDone[k] = 3 /\ LedgerRows(k) = <<3>>

\* C10 as stated: a call whose insert was rejected because a row for the
\* (user, day) exists goes on to an update that increments that row.
C10_AsStated ==
    \A c \in Clients : (tcHist[c].rejected /\ TcOver(c)) => tcHist[c].updated

\* C10 as amended: a call whose insert was rejected because a row for the
\* (user, day) exists returns without raising and without having written
\* anything: it neither updates nor inserts, the increment is dropped.
C10_RejectedInsertDropped ==
    \A c \in Clients :
        (tcHist[c].rejected /\ pc[c] # "tc_insert_except") =>
            /\ pc[c] # "tc_raise" /\ ~tcHist[c].raised
            /\ tcHist[c].returned
            /\ ~tcHist[c].updated /\ ~tcHist[c].inserted

\* A call lost the race: its lookup found no row, its insert was rejected.
C10_Witness ==
    \E c \in Clients :
        /\ tcHist[c].rejected /\ tcHist[c].returned /\ faults = 0
        /\ LedgerRows(TcKey(c)) = <<1>>

\* ----------------------------------------------------------- session claims
Checked(c) == chk[c].ran
AskedProvider(c) == chk[c].ran /\ chk[c].calls > 0

\* C2: a validity check run before a protected view on a session whose access
\* token is still valid leaves access_token, refresh_token and user as they
\* were and makes no call to the auth provider.
C2_ValidSessionUntouched ==
    \A c \in Clients :
        (Checked(c) /\ chk[c].preValid) =>
            chk[c].post = chk[c].pre /\ chk[c].calls = 0

\* C3: whenever the refresh attempt fails (the provider raises, or answers
\* without a session), refresh_jwt_if_needed reports failure and
\* access_token, refresh_token and user are all absent afterwards.
C3_FailedRefreshClears ==
    \A c \in Clients :
        (AskedProvider(c) /\ chk[c].out.kind \in {"error", "no_session"}) =>
            ~chk[c].ok /\ chk[c].post = NoSession

\* The store calls of a request.
StoreCalls(c) == DOMAIN log[c]

\* C5: in a request for a protected route, a row-store or blob-store call is
\* made only after refresh_jwt_if_needed has completed successfully; a request
\* whose check failed (or was never passed) makes no such call.
C5_CheckBeforeStore ==
    \A c \in Clients :
        (req[c].route \in {"dashboard", "view_pdf"} /\ StoreCalls(c) # {}) =>
            Checked(c) /\ chk[c].ok

\* A protected view ran to its blob download after a successful check.
C5_Witness ==
    \E c \in Clients :
        /\ Checked(c) /\ chk[c].ok
        /\ \E i \in StoreCalls(c) : log[c][i].op = "blob.download"

\* C7: on a session with an expired access token whose refresh token the
\* provider accepts, refresh_jwt_if_needed succeeds, stores the access and
\* refresh token the provider returned, the access token differs from the old
\* one, and the user is unchanged.
C7_RefreshReplacesTokens ==
    \A c \in Clients :
        (AskedProvider(c) /\ ~chk[c].preValid /\ chk[c].out.kind = "session") =>
            /\ chk[c].ok
            /\ chk[c].post.access_token = Some(chk[c].out.token)
            /\ chk[c].post.refresh_token = Some(chk[c].out.token)
            /\ chk[c].post.access_token # chk[c].pre.access_token
            /\ chk[c].post.user = chk[c].pre.user
            /\ chk[c].post.user # Absent

\* An expired session was refreshed.
C7_Witness ==
    \E c \in Clients :
        /\ AskedProvider(c) /\ ~chk[c].preValid /\ chk[c].out.kind = "session"
        /\ session[c] = chk[c].post /\ TokenValid(session[c])

\* -------------------------------------------------------- attachment claims
BlobOps == {"blob.upload", "blob.remove", "blob.download"}
Finished(c) == pc[c] = "done"

\* C1: in update_question the old blob's deletion is issued only after the
\* upload of the new blob has succeeded: never before it, and never when the
\* upload fails.
C1_UploadBeforeOldDelete ==
    \A c \in Clients :
        req[c].route = "update_question" =>
            \A i \in DOMAIN log[c] :
                log[c][i].op = "blob.remove" =>
                    \E j \in 1..(i - 1) : log[c][j] = Call("blob.upload", TRUE)

\* The submitted files C6 is about, by name and size: no extension, an
\* extension other than pdf, or more than 10 MiB.
C6_NoExtension == {<<>>, <<"a">>, <<"p", "d", "f">>}
C6_OtherExtension ==
    {<<"a", ".", "e", "x", "e">>, <<"a", ".", "p", "d", "f", ".", "e", "x", "e">>}
C6_Refused(file) ==
    /\ file # Absent
    /\ \/ file[1].name \in C6_NoExtension \cup C6_OtherExtension
       \/ file[1].size > 10 * 1024 * 1024

\* C6: a create or update request whose file has no extension, an extension
\* other than pdf, or a size above 10 MiB makes no blob-store call: no upload,
\* no deletion of an existing blob.
C6_RefusedFileNoBlobCall ==
    \A c \in Clients :
        (/\ req[c].route \in {"update_question", "folder_detail", "add_question_to_folder"}
         /\ C6_Refused(req[c].file)) =>
            \A i \in DOMAIN log[c] : log[c][i].op \notin BlobOps

\* An update of a question that has an attachment, submitted with a file named
\* a.pdf.exe, has finished with its row update made.
C6_Witness ==
    \E c \in Clients :
        /\ Finished(c) /\ req[c].route = "update_question"
        /\ C6_Refused(req[c].file)
        /\ req[c].file[1].name \in C6_OtherExtension
        /\ Exists(req[c].qid) /\ PathOf(req[c].qid) # Absent
        /\ log[c] = <<Call("data.update", TRUE)>>

\* C8: when a request has removed question rows (delete_question, or the
\* cascade of delete_folder) and every blob deletion it made succeeded, the
\* attachment blobs those rows referenced are gone from the blob store once
\* the request has finished.
C8_RemovedRowsLeaveNoBlob ==
    \A c \in Clients :
        (/\ Finished(c)
         /\ req[c].route \in {"delete_question", "delete_folder"}
         /\ \A i \in DOMAIN log[c] : log[c][i].op = "blob.remove" => log[c][i].ok) =>
            req[c].dropped \cap blobs = {}

\* ------------------------------------------------- contributions query claims
GcAnswered(c) ==
    Finished(c) /\ req[c].route = "get_contributions" /\ resp[c] = "ok"

\* Strings of digits and dashes: the order of two characters, of two strings of
\* one length, and the date an ISO string names.
CharRank(ch) ==
    CHOOSE i \in 1..11 :
        <<"-", "0", "1", "2", "3", "4", "5", "6", "7", "8", "9">>[i] = ch
StrLess(a, b) ==
    \E i \in 1..Len(a) :
        /\ \A j \in 1..(i - 1) : a[j] = b[j]
        /\ CharRank(a[i]) < CharRank(b[i])
DigitOf(ch) == CharRank(ch) - 2
ParseIso(str) ==
    <<1000 * DigitOf(str[1]) + 100 * DigitOf(str[2]) + 10 * DigitOf(str[3])
          + DigitOf(str[4]),
      10 * DigitOf(str[6]) + DigitOf(str[7]),
      10 * DigitOf(str[9]) + DigitOf(str[10])>>

\* The calendar day after a date.
CalendarNext(d) ==
    IF d[3] < DaysInMonth(d[1], d[2]) THEN <<d[1], d[2], d[3] + 1>>
    ELSE IF d[2] < 12 THEN <<d[1], d[2] + 1, 1>>
    ELSE <<d[1] + 1, 1, 1>>

\* The stored rows of user u for the day an ISO string names.
StoredFor(u, date_str) ==
    {k \in LedgerKeys : /\ k[1] = u
                        /\ contributions[k] # <<>>
                        /\ isoformat(DateOfDay(k[2])) = date_str}

\* C11: an answered contributions query holds exactly one entry for every
\* calendar day from today minus 180 days to today, both included, in strictly
\* ascending date order, each entry dated the calendar day after the one
\* before it; a day with no stored row has count 0 (and a day with a stored
\* row has that row's count).
C11_OneEntryPerDay ==
    \A c \in Clients :
        GcAnswered(c) =>
            LET data == req[c].data IN
            /\ Len(data) = RANGE_DAYS + 1
            /\ data[Len(data)].date = isoformat(req[c].end_date)
            /\ ToOrdinal(ParseIso(data[1].date))
                   = ToOrdinal(req[c].end_date) - RANGE_DAYS
            /\ \A i \in 1..(Len(data) - 1) :
                   /\ ParseIso(data[i + 1].date) = CalendarNext(ParseIso(data[i].date))
                   /\ StrLess(data[i].date, data[i + 1].date)
            /\ \A i \in 1..Len(data) :
                   LET stored == StoredFor(req[c].uid, data[i].date) IN
                   IF stored = {} THEN data[i].count = 0
                   ELSE \E k \in stored : data[i].count = contributions[k][1]

\* A query answered on the leap day, its range reaching back into the year
\* before, with a counted day and an empty day in it.
C11_Witness ==
    \E c \in Clients :
        /\ GcAnswered(c)
        /\ req[c].end_date = <<2024, 2, 29>>
        /\ ParseIso(req[c].data[1].date)[1] = 2023
        /\ \E i \in DOMAIN req[c].data : req[c].data[i].count > 0
        /\ \E i \in DOMAIN req[c].data : req[c].data[i].count = 0

\* The tiers of the level table: tier t (from 0) holds the counts Tiers[t + 1];
\* the counts above them are tier 8.
Tiers == <<{0}, {1}, 2..4, 5..7, 8..10, 11..14, 15..17, 18..21>>
TierOf(count) ==
    IF \E t \in DOMAIN Tiers : count \in Tiers[t]
    THEN (CHOOSE t \in DOMAIN Tiers : count \in Tiers[t]) - 1
    ELSE 8

\* C12: the level of every entry of an answered contributions query is the
\* tier of its count: 0 -> 0, 1 -> 1, 2..4 -> 2, 5..7 -> 3, 8..10 -> 4,
\* 11..14 -> 5, 15..17 -> 6, 18..21 -> 7, 22 and above -> 8.
C12_LevelTable ==
    \A c \in Clients :
        GcAnswered(c) =>
            \A i \in DOMAIN req[c].data :
                /\ req[c].data[i].count >= 0
                /\ req[c].data[i].level = TierOf(req[c].data[i].count)

\* A query answered with a day of count 22 at level 8 next to empty days.
C12_Witness ==
    \E c \in Clients :
        /\ GcAnswered(c)
        /\ \E i \in DOMAIN req[c].data :
               req[c].data[i].count = 22 /\ req[c].data[i].level = 8
        /\ \E i \in DOMAIN req[c].data :
               req[c].data[i].count = 0 /\ req[c].data[i].level = 0

\* ------------------------------------------------------- replacement claims
\* The request of client c is an update_question that replaced an attachment:
\* it read an old key, and its deletion of the old blob and its upload of the
\* new one both succeeded.
Replaced(c) ==
    /\ req[c].route = "update_question"
    /\ req[c].old # Absent
    /\ \E i \in DOMAIN log[c] : log[c][i] = Call("blob.remove", TRUE)
    /\ \E i \in DOMAIN log[c] : log[c][i] = Call("blob.upload", TRUE)

\* C13: once an update_question that replaced an attachment (upload and old
\* blob's deletion both successful) has returned, the old key holds no blob,
\* the new key holds one, and the question's pdf_file_path is the new key.
C13_ReplaceInstallsNew ==
    \A c \in Clients :
        (Finished(c) /\ Replaced(c)) =>
            /\ req[c].old[1] \notin blobs
            /\ req[c].new # Absent /\ req[c].new[1] \in blobs
            /\ Exists(req[c].qid) /\ PathOf(req[c].qid) = req[c].new

\* The calls of c's request that follow the failed deletion of a blob.
RemoveFailedAt(c) == {i \in DOMAIN log[c] : log[c][i] = Call("blob.remove", FALSE)}

\* C14: a failed deletion of an attachment blob does not abort the operation.
\* In update_question the upload is the next call and the row update follows
\* it; when these succeed the new blob is stored, the row references it and
\* the request reports success.  In delete_question the row deletion is the
\* next call; when it succeeds the row is gone and the request reports success.
C14_RemoveFailureSwallowed ==
    \A c \in Clients :
        Finished(c) =>
            \A i \in RemoveFailedAt(c) :
                /\ req[c].route = "update_question" =>
                      /\ i + 2 \in DOMAIN log[c]
                      /\ log[c][i + 1].op = "blob.upload"
                      /\ log[c][i + 2].op = "data.update"
                      /\ (log[c][i + 1].ok /\ log[c][i + 2].ok) =>
                            /\ req[c].new # Absent /\ req[c].new[1] \in blobs
                            /\ PathOf(req[c].qid) = req[c].new
                            /\ resp[c] = "ok"
                /\ req[c].route = "delete_question" =>
                      /\ i + 1 \in DOMAIN log[c]
                      /\ log[c][i + 1].op = "data.delete"
                      /\ log[c][i + 1].ok => ~Exists(req[c].qid) /\ resp[c] = "ok"

\* A replacement that went through although the old blob could not be
\* deleted: the old blob is still stored, the row references the new one.
C14_Witness ==
    \E c \in Clients :
        /\ Finished(c) /\ RemoveFailedAt(c) # {} /\ resp[c] = "ok"
        /\ req[c].route = "update_question"
        /\ req[c].old # Absent /\ req[c].old[1] \in blobs
        /\ PathOf(req[c].qid) = req[c].new /\ req[c].new[1] \in blobs

\* A question deletion that went through although the blob could not be deleted.
DeletedDespiteFailure ==
    \E c \in Clients :
        /\ Finished(c) /\ RemoveFailedAt(c) # {} /\ resp[c] = "ok"
        /\ req[c].route = "delete_question" /\ ~Exists(req[c].qid)

\* ---------------------------------------------------- session shape claims
BothOrNeither(s) == (s.access_token = Absent) <=> (s.refresh_token = Absent)

\* Sessions that miss a token, in every shape: either token absent, the other
\* token and the user present or absent; and every kind of answer of the auth
\* provider to a refresh.
Optional(S) == {Absent} \cup {Some(v) : v \in S}
PartialSessions ==
    {[access_token |-> Absent, refresh_token |-> t, user |-> u] :
        t \in Optional(Tokens), u \in Optional(Users)}
    \cup {[access_token |-> t, refresh_token |-> Absent, user |-> u] :
        t \in Optional(Tokens), u \in Optional(Users)}
AnyRefreshResponse ==
    {[kind |-> k, token |-> IF k = "session" THEN MaxTokens ELSE 0] :
        k \in {"error", "no_session", "session"}}

\* A protected view has run in c's request.
ViewRan(c) ==
    \/ pc[c] \in {"dash_select", "dash_questions", "vp_select", "vp_download"}
    \/ StoreCalls(c) # {}

\* login_required runs no view for a session that misses a token, whatever
\* its shape and whatever the auth provider would answer.
GateRefusesPartialSessions ==
    \A s \in PartialSessions, r \in AnyRefreshResponse :
        ~GateRunsView(s, refresh_jwt_if_needed(s, r).ok)

\* C15: every session holds both access_token and refresh_token or neither,
\* whatever logins, refreshes and logouts came before; a protected view runs
\* only for a session that held both tokens; and login_required runs no view
\* for a session of any shape that misses either token.
C15_TokensBothOrNeither ==
    /\ \A c \in Clients : BothOrNeither(session[c])
    /\ \A c \in Clients :
           (req[c].route \in {"dashboard", "view_pdf"} /\ ViewRan(c)) =>
               /\ Checked(c)
               /\ chk[c].pre.access_token # Absent /\ chk[c].pre.refresh_token # Absent
    /\ GateRefusesPartialSessions

\* A logged-in session whose refresh raised: both tokens and the user are
\* gone and the request was sent to the login page without running its view.
C15_Witness ==
    \E c \in Clients :
        /\ Finished(c) /\ AskedProvider(c) /\ chk[c].out.kind = "error"
        /\ chk[c].pre.access_token # Absent /\ chk[c].pre.refresh_token # Absent
        /\ session[c] = NoSession
        /\ resp[c] = "redirect_login" /\ StoreCalls(c) = {}

\* ----------------------------------------------------- error handling claims
\* The dashboard request of client c was sent to the login page by
\* handle_jwt_error: its folder select was refused for an expired JWT.
JwtRefused(c) ==
    /\ Finished(c) /\ req[c].route = "dashboard"
    /\ resp[c] = "redirect_login"
    /\ \E i \in StoreCalls(c) : log[c][i] = Call("data.select", FALSE)

\* C16: when a row-store call of a protected view is refused for an expired
\* JWT, access_token, refresh_token and user are cleared before the user is
\* sent to the login page, and the refused call is not made again.
C16_AuthErrorInvalidates ==
    \A c \in Clients :
        JwtRefused(c) => session[c] = NoSession /\ Len(log[c]) = 1

\* The row-store writes among the calls of a request.
DataWrites == {"data.insert", "data.update", "data.delete"}

\* C17: within one request a failed row-store write is not followed by
\* another write attempt.
C17_NoSecondWrite ==
    \A c \in Clients :
        \A i, j \in DOMAIN log[c] :
            (i < j /\ log[c][i].op \in DataWrites /\ ~log[c][i].ok) =>
                log[c][j].op \notin DataWrites

\* ------------------------------------------------ attachment integrity claims
\* The blobs stored for question q (their keys start with its id).
BlobsOf(q) == {k \in blobs : k[1] = q}

\* C18: once an update_question request has finished, whether its upload
\* succeeded or failed, the question it updated references a stored blob if
\* its pdf_file_path is set; a replacement that failed leaves the blob of the
\* previous attachment stored.
C18_NoDanglingReference ==
    \A c \in Clients :
        (Finished(c) /\ req[c].route = "update_question" /\ Exists(req[c].qid)) =>
            /\ PathOf(req[c].qid) # Absent => PathOf(req[c].qid)[1] \in blobs
            /\ (req[c].old # Absent /\ PathOf(req[c].qid) = req[c].old) =>
                   req[c].old[1] \in blobs

\* C19: the stored count of a (user, day) never decreases from one state to
\* the next, whatever track_contribution calls are in flight.
C19_CountNeverDecreases ==
    [][\A k \in LedgerKeys :
          (contributions[k] # <<>> /\ contributions'[k] # <<>>) =>
              contributions'[k][1] >= contributions[k][1]]_vars

\* Every call of c's request succeeded.
AllCallsOk(c) == \A i \in DOMAIN log[c] : log[c][i].ok

\* C20: when two update_question requests that each replaced the attachment
\* of one question have both finished, no call of either having failed, the
\* blob store holds exactly one blob for the question: the one its
\* pdf_file_path references.
C20_OneBlobAfterRace ==
    \A c1, c2 \in Clients :
        (/\ c1 # c2
         /\ Finished(c1) /\ Finished(c2)
         /\ Replaced(c1) /\ Replaced(c2)
         /\ req[c1].qid = req[c2].qid
         /\ AllCallsOk(c1) /\ AllCallsOk(c2)
         /\ faults = 0) =>
            /\ Exists(req[c1].qid) /\ PathOf(req[c1].qid) # Absent
            /\ BlobsOf(req[c1].qid) = {PathOf(req[c1].qid)[1]}

====
